---- MODULE Spec2Model ----
(***************************************************************************)
(* Study-Sync reminder back end (src/main.py): the class records           *)
(* (classes_db), the scheduler's job registry, the message log             *)
(* (messages_db) and the HTTP handlers and background fires that change    *)
(* them.                                                                   *)
(*                                                                         *)
(* Every handler is an `async def` that never suspends before it returns   *)
(* (the coroutines it awaits contain no suspension point), so each handler *)
(* and each background fire is one atomic step of the event loop.          *)
(*                                                                         *)
(* Strings the code parses (class_time) are sequences of one-character     *)
(* strings, so that split(":") and int() are computed as Python computes   *)
(* them.  uuid4() is modelled as a fresh identifier: nextId counts the     *)
(* identifiers handed out and no identifier is handed out twice.           *)
(* parents_db, the webhook and the read-only routes are left out: they     *)
(* touch neither classes_db nor the job registry.                          *)
(***************************************************************************)
EXTENDS Integers, Sequences, FiniteSets, TLC

VARIABLES
    classes_db,   \* main.py:59   class id -> stored record (tutoring_class.dict())
    jobs,         \* main.py:28   the scheduler's job store: a set of job entries
    messages_db,  \* main.py:60   the append-only message log
    pending,      \* class ids whose background fire is submitted and not yet run
    nextId,       \* the next fresh identifier uuid4() hands out (main.py:134)
    last          \* the handler that ran last and the HTTP status it answered

vars == <<classes_db, jobs, messages_db, pending, nextId, last>>

\* ------------------------------------------------------------------ bounds
\* class ids that create_class may hand out
MaxIds == 1
\* entries the message log may hold
MaxMessages == 1

\* ------------------------------------------------------- values and fields
\* Optional[...] = None (main.py:32, main.py:40)
None == "None"
\* Optional[str] id before create_class/update_class assign it (main.py:32)
NoId == 0
\* datetime.now() at main.py:136, as an opaque timestamp
Now == "now"

\* day_mapping of schedule_reminder
day_mapping ==
    [d \in {"Monday", "Tuesday", "Wednesday", "Thursday",
            "Friday", "Saturday", "Sunday"} |->
        CASE d = "Monday" -> 0
          [] d = "Tuesday" -> 1
          [] d = "Wednesday" -> 2
          [] d = "Thursday" -> 3
          [] d = "Friday" -> 4
          [] d = "Saturday" -> 5
          [] d = "Sunday" -> 6]

\* ------------------------------------------------ class_time.split(":"), int
DigitChars == <<"0", "1", "2", "3", "4", "5", "6", "7", "8", "9">>

IsDigit(c) == \E i \in 1..Len(DigitChars) : DigitChars[i] = c

DigitVal(c) == (CHOOSE i \in 1..Len(DigitChars) : DigitChars[i] = c) - 1

\* str.split(sep): the pieces of s between the occurrences of sep
RECURSIVE Split(_, _)
Split(s, sep) ==
    IF \A i \in 1..Len(s) : s[i] # sep
    THEN <<s>>
    ELSE LET k == CHOOSE i \in 1..Len(s) :
                      /\ s[i] = sep
                      /\ \A j \in 1..(i - 1) : s[j] # sep
         IN <<SubSeq(s, 1, k - 1)>> \o Split(SubSeq(s, k + 1, Len(s)), sep)

\* the value of a run of decimal digits
RECURSIVE DigitsValue(_)
DigitsValue(ds) ==
    IF Len(ds) = 0 THEN 0
    ELSE 10 * DigitsValue(SubSeq(ds, 1, Len(ds) - 1)) + DigitVal(ds[Len(ds)])

\* int(tok): an optional sign and at least one digit, else ValueError
ParseInt(tok) ==
    LET signed == Len(tok) > 0 /\ tok[1] \in {"-", "+"}
        ds     == IF signed THEN SubSeq(tok, 2, Len(tok)) ELSE tok
    IN IF Len(ds) > 0 /\ \A i \in 1..Len(ds) : IsDigit(ds[i])
       THEN [ok |-> TRUE,
             val |-> IF signed /\ tok[1] = "-" THEN 0 - DigitsValue(ds)
                     ELSE DigitsValue(ds)]
       ELSE [ok |-> FALSE, val |-> 0]

\* hour, minute = map(int, class_time.split(":")) inside try/except
ParseTime(class_time) ==
    LET parts == Split(class_time, ":")
    IN IF Len(parts) # 2
       THEN [ok |-> FALSE, hour |-> 0, minute |-> 0]
       ELSE LET h == ParseInt(parts[1])
                m == ParseInt(parts[2])
            IN IF h.ok /\ m.ok
               THEN [ok |-> TRUE, hour |-> h.val, minute |-> m.val]
               ELSE [ok |-> FALSE, hour |-> 0, minute |-> 0]

\* datetime.replace(hour=, minute=) raises ValueError outside these ranges
ReplaceOk(hour, minute) ==
    /\ hour >= 0 /\ hour <= 23
    /\ minute >= 0 /\ minute <= 59

MinutesPerDay == 24 * 60

\* faulty variant of reminder_time: the lead time added, not subtracted
reminder_time_added(hour, minute, reminder_minutes) ==
    LET t == (60 * hour + minute + reminder_minutes) % MinutesPerDay
    IN [hour |-> t \div 60, minute |-> t % 60]

\* now.replace(hour, minute) - timedelta(minutes=reminder_minutes): only the
\* hour and the minute of the result are read, the date it lands on is dropped
reminder_time(hour, minute, reminder_minutes) ==
    LET t == (60 * hour + minute - reminder_minutes) % MinutesPerDay
    IN [hour |-> t \div 60, minute |-> t % 60]

\* ----------------------------------------------------------- job registry
JobsOf(js, class_id) == {j \in js : j.id = class_id}

\* scheduler.remove_job(id); the JobLookupError of a missing id is swallowed
\* by the bare except of both callers
remove_job(js, class_id) == js \ JobsOf(js, class_id)

\* scheduler.add_job(..., id=, replace_existing=True)
add_job(js, job) == (js \ JobsOf(js, job.id)) \cup {job}

\* schedule_reminder: the registry after the call and whether it raised
schedule_reminder(js, class_id, tutoring_class) ==
    IF tutoring_class.day_of_week \notin DOMAIN day_mapping
    THEN [jobs |-> js, raised |-> FALSE]
    ELSE LET p == ParseTime(tutoring_class.class_time)
         IN IF ~p.ok
            THEN [jobs |-> js, raised |-> FALSE]
            ELSE IF ~ReplaceOk(p.hour, p.minute)
            THEN [jobs |-> js, raised |-> TRUE]
            ELSE LET rt == reminder_time(p.hour, p.minute,
                                         tutoring_class.reminder_minutes)
                 IN [jobs |-> add_job(js,
                                [id |-> class_id,
                                 day_of_week |->
                                     day_mapping[tutoring_class.day_of_week],
                                 hour |-> rt.hour,
                                 minute |-> rt.minute]),
                     raised |-> FALSE]

\* ------------------------------------------------------------- dispatcher
\* faulty variant of Render: the student's name and the subject exchanged
Render_swapped(rec) ==
    [subject |-> rec.child_name,
     child_name |-> rec.subject,
     class_time |-> rec.class_time,
     day_of_week |-> rec.day_of_week,
     reminder_minutes |-> rec.reminder_minutes]

\* the f-string of send_class_reminder, as the values it interpolates
Render(rec) ==
    [subject |-> rec.subject,
     child_name |-> rec.child_name,
     class_time |-> rec.class_time,
     day_of_week |-> rec.day_of_week,
     reminder_minutes |-> rec.reminder_minutes]

\* send_whatsapp_message: one entry appended to the log
send_whatsapp_message(msgs, phone, message) ==
    Append(msgs, [phone |-> phone, message |-> message, status |-> "sent"])

\* faulty variant of send_class_reminder: the is_active check left out
send_class_reminder_noActiveCheck(db, msgs, class_id) ==
    IF class_id \notin DOMAIN db
    THEN msgs
    ELSE send_whatsapp_message(msgs, db[class_id].parent_phone,
                               Render(db[class_id]))

\* send_class_reminder: the message log after the call (it never raises)
send_class_reminder(db, msgs, class_id) ==
    IF class_id \notin DOMAIN db
    THEN msgs
    ELSE IF ~db[class_id].is_active
    THEN msgs
    ELSE send_whatsapp_message(msgs, db[class_id].parent_phone,
                               Render(db[class_id]))

\* ----------------------------------------------------------------- inputs
\* "%02d" of a number below 100, as characters
Fmt2(n) == <<DigitChars[(n \div 10) + 1], DigitChars[(n % 10) + 1]>>

\* the "HH:MM" string the front end sends for (h, m)
TimeStr(h, m) == Fmt2(h) \o <<":">> \o Fmt2(m)

\* a TutoringClass request body; id and created_at keep their None defaults
MkClass(day, time, lead, active) ==
    [id |-> NoId,
     parent_phone |-> "+15550100",
     child_name |-> "Ada",
     subject |-> "Math",
     day_of_week |-> day,
     class_time |-> time,
     reminder_minutes |-> lead,
     is_active |-> active,
     created_at |-> None]

\* request bodies the handlers of Spec are called with
ClassInputs ==
    { MkClass("Friday", TimeStr(18, 0), 15, TRUE),
      MkClass("Friday", TimeStr(18, 0), 45, TRUE),
      MkClass("Friday", TimeStr(18, 0), 15, FALSE),
      MkClass("Funday", TimeStr(18, 0), 15, TRUE),
      MkClass("Friday", TimeStr(25, 0), 15, TRUE),
      MkClass("Friday", <<"1", "8", "0", "0">>, 15, TRUE) }

\* ReminderRequest.custom_message (main.py:50)
CustomMessages == {None, "Class moved online"}

\* the class ids a request may name: handed out, deleted or never handed out
RequestIds == 1..(MaxIds + 1)

\* ------------------------------------------------------------------- state
Init ==
    /\ classes_db = <<>>
    /\ jobs = {}
    /\ messages_db = <<>>
    /\ pending = {}
    /\ nextId = 1
    /\ last = [op |-> "startup", status |-> None]

HttpStatus(raised) == IF raised THEN "500" ELSE "200"

\* the message log has room for what a fire appends
LogHasRoom(msgs) == Len(msgs) <= MaxMessages

\* ---------------------------------------------------------------- handlers
\* POST /classes/
create_class(tutoring_class) ==
    /\ nextId <= MaxIds
    /\ LET class_id == nextId
           rec == [tutoring_class EXCEPT !.id = class_id, !.created_at = Now]
           r == schedule_reminder(jobs, class_id, rec)
       IN /\ classes_db' = [k \in DOMAIN classes_db \cup {class_id} |->
                               IF k = class_id THEN rec ELSE classes_db[k]]
          /\ jobs' = r.jobs
          /\ last' = [op |-> "create_class", status |-> HttpStatus(r.raised)]
    /\ nextId' = nextId + 1
    /\ UNCHANGED <<messages_db, pending>>

\* faulty variant of update_class: the new reminder is never scheduled
update_class_notRescheduled(class_id, updated_class) ==
    IF class_id \notin DOMAIN classes_db
    THEN /\ last' = [op |-> "update_class", status |-> "404"]
         /\ UNCHANGED <<classes_db, jobs, messages_db, pending, nextId>>
    ELSE /\ classes_db' = [classes_db EXCEPT
                              ![class_id] = [updated_class EXCEPT !.id = class_id]]
         /\ jobs' = remove_job(jobs, class_id)
         /\ last' = [op |-> "update_class", status |-> "200"]
         /\ UNCHANGED <<messages_db, pending, nextId>>

\* faulty variant of update_class: a record updated to inactive is left
\* without a reminder
update_class_inactiveUnscheduled(class_id, updated_class) ==
    IF class_id \notin DOMAIN classes_db
    THEN /\ last' = [op |-> "update_class", status |-> "404"]
         /\ UNCHANGED <<classes_db, jobs, messages_db, pending, nextId>>
    ELSE LET rec == [updated_class EXCEPT !.id = class_id]
             r == IF rec.is_active
                  THEN schedule_reminder(remove_job(jobs, class_id), class_id, rec)
                  ELSE [jobs |-> remove_job(jobs, class_id), raised |-> FALSE]
         IN /\ classes_db' = [classes_db EXCEPT ![class_id] = rec]
            /\ jobs' = r.jobs
            /\ last' = [op |-> "update_class", status |-> HttpStatus(r.raised)]
            /\ UNCHANGED <<messages_db, pending, nextId>>

\* faulty variant of update_class: the record is written but the registry
\* keeps the entry of the record it replaces
update_class_staleEntry(class_id, updated_class) ==
    IF class_id \notin DOMAIN classes_db
    THEN /\ last' = [op |-> "update_class", status |-> "404"]
         /\ UNCHANGED <<classes_db, jobs, messages_db, pending, nextId>>
    ELSE /\ classes_db' = [classes_db EXCEPT
                              ![class_id] = [updated_class EXCEPT !.id = class_id]]
         /\ last' = [op |-> "update_class", status |-> "200"]
         /\ UNCHANGED <<jobs, messages_db, pending, nextId>>

\* faulty variant of update_class: no check that the class exists, so an
\* unknown id is stored and scheduled
update_class_upserts(class_id, updated_class) ==
    LET rec == [updated_class EXCEPT !.id = class_id]
        r == schedule_reminder(remove_job(jobs, class_id), class_id, rec)
    IN /\ classes_db' = [k \in DOMAIN classes_db \cup {class_id} |->
                            IF k = class_id THEN rec ELSE classes_db[k]]
       /\ jobs' = r.jobs
       /\ last' = [op |-> "update_class", status |-> HttpStatus(r.raised)]
       /\ UNCHANGED <<messages_db, pending, nextId>>

\* PUT /classes/{class_id}
update_class(class_id, updated_class) ==
    IF class_id \notin DOMAIN classes_db
    THEN /\ last' = [op |-> "update_class", status |-> "404"]
         /\ UNCHANGED <<classes_db, jobs, messages_db, pending, nextId>>
    ELSE LET rec == [updated_class EXCEPT !.id = class_id]
             r == schedule_reminder(remove_job(jobs, class_id), class_id, rec)
         IN /\ classes_db' = [classes_db EXCEPT ![class_id] = rec]
            /\ jobs' = r.jobs
            /\ last' = [op |-> "update_class", status |-> HttpStatus(r.raised)]
            /\ UNCHANGED <<messages_db, pending, nextId>>

\* faulty variant of delete_class: the reminder is left in the registry
delete_class_keepsJob(class_id) ==
    IF class_id \notin DOMAIN classes_db
    THEN /\ last' = [op |-> "delete_class", status |-> "404"]
         /\ UNCHANGED <<classes_db, jobs, messages_db, pending, nextId>>
    ELSE /\ classes_db' = [k \in DOMAIN classes_db \ {class_id} |-> classes_db[k]]
         /\ last' = [op |-> "delete_class", status |-> "200"]
         /\ UNCHANGED <<jobs, messages_db, pending, nextId>>

\* faulty variant of delete_class: the error of removing a reminder that is
\* not in the registry is not caught, and the request fails before the delete
delete_class_removeRaises(class_id) ==
    IF class_id \notin DOMAIN classes_db
    THEN /\ last' = [op |-> "delete_class", status |-> "404"]
         /\ UNCHANGED <<classes_db, jobs, messages_db, pending, nextId>>
    ELSE IF JobsOf(jobs, class_id) = {}
    THEN /\ last' = [op |-> "delete_class", status |-> "500"]
         /\ UNCHANGED <<classes_db, jobs, messages_db, pending, nextId>>
    ELSE /\ jobs' = remove_job(jobs, class_id)
         /\ classes_db' = [k \in DOMAIN classes_db \ {class_id} |-> classes_db[k]]
         /\ last' = [op |-> "delete_class", status |-> "200"]
         /\ UNCHANGED <<messages_db, pending, nextId>>

\* DELETE /classes/{class_id}
delete_class(class_id) ==
    IF class_id \notin DOMAIN classes_db
    THEN /\ last' = [op |-> "delete_class", status |-> "404"]
         /\ UNCHANGED <<classes_db, jobs, messages_db, pending, nextId>>
    ELSE /\ jobs' = remove_job(jobs, class_id)
         /\ classes_db' = [k \in DOMAIN classes_db \ {class_id} |-> classes_db[k]]
         /\ last' = [op |-> "delete_class", status |-> "200"]
         /\ UNCHANGED <<messages_db, pending, nextId>>

\* faulty variant of send_manual_reminder: no check that the class exists
send_manual_reminder_noLookup(class_id, request) ==
    /\ messages_db' = send_class_reminder(classes_db, messages_db, class_id)
    /\ LogHasRoom(messages_db')
    /\ last' = [op |-> "send_manual_reminder", status |-> "200"]
    /\ UNCHANGED <<classes_db, jobs, pending, nextId>>

\* POST /reminders/send/{class_id}; request.custom_message is never read
send_manual_reminder(class_id, request) ==
    IF class_id \notin DOMAIN classes_db
    THEN /\ last' = [op |-> "send_manual_reminder", status |-> "404"]
         /\ UNCHANGED <<classes_db, jobs, messages_db, pending, nextId>>
    ELSE /\ messages_db' = send_class_reminder(classes_db, messages_db, class_id)
         /\ LogHasRoom(messages_db')
         /\ last' = [op |-> "send_manual_reminder", status |-> "200"]
         /\ UNCHANGED <<classes_db, jobs, pending, nextId>>

\* ------------------------------------------------------- background timer
\* the fire time of a registry entry
FireSpec(j) == <<j.day_of_week, j.hour, j.minute>>

\* The scheduler wakes at fire time t: every registry entry whose trigger
\* matches t is submitted to the event loop as a task running
\* send_class_reminder(class_id); an entry whose previous run has not
\* finished is skipped (the scheduler's default of one instance per job).
TimerDue(t) ==
    /\ \E j \in jobs : FireSpec(j) = t
    /\ pending' = pending \cup {j.id : j \in {x \in jobs : FireSpec(x) = t}}
    /\ last' = [op |-> "timer", status |-> None]
    /\ UNCHANGED <<classes_db, jobs, messages_db, nextId>>

\* faulty variant of BackgroundFire: the reminder is dropped from the registry
\* once it has fired, as a one-shot trigger would be
BackgroundFire_oneShot(class_id) ==
    /\ class_id \in pending
    /\ messages_db' = send_class_reminder(classes_db, messages_db, class_id)
    /\ LogHasRoom(messages_db')
    /\ pending' = pending \ {class_id}
    /\ jobs' = remove_job(jobs, class_id)
    /\ last' = [op |-> "send_class_reminder", status |-> None]
    /\ UNCHANGED <<classes_db, nextId>>

\* a submitted task runs: send_class_reminder(class_id) on the event loop
BackgroundFire(class_id) ==
    /\ class_id \in pending
    /\ messages_db' = send_class_reminder(classes_db, messages_db, class_id)
    /\ LogHasRoom(messages_db')
    /\ pending' = pending \ {class_id}
    /\ last' = [op |-> "send_class_reminder", status |-> None]
    /\ UNCHANGED <<classes_db, jobs, nextId>>

FireTimes == {FireSpec(j) : j \in jobs}

Next ==
    \/ \E tc \in ClassInputs : create_class(tc)
    \/ \E id \in RequestIds, tc \in ClassInputs : update_class(id, tc)
    \/ \E id \in RequestIds : delete_class(id)
    \/ \E id \in RequestIds, req \in [class_id : RequestIds,
                                      custom_message : CustomMessages] :
           /\ req.class_id = id
           /\ send_manual_reminder(id, req)
    \/ \E t \in FireTimes : TimerDue(t)
    \/ \E id \in pending : BackgroundFire(id)

Spec == Init /\ [][Next]_vars

\* ------------------------------------------- the first create_class, widely
\* weekday names a request may carry: the seven of day_mapping and one other
CalcDays == DOMAIN day_mapping \cup {"Funday"}

\* hours and minutes sent as "HH:MM"; 24, 25 and 60 are out of range
CalcHours == 0..25
CalcMinutes == {0, 10, 30, 59, 60}

\* reminder_minutes values; the model field is a plain int (main.py:38)
CalcLeads == {0 - 30, 0, 15, 30, 45, 90, 1500}

\* class_time strings that are not "HH:MM"
MalformedTimes ==
    { <<"1", "8", "0", "0">>,
      <<"1", "8", ":", "0", "0", ":", "0", "0">>,
      <<"a", "b", ":", "c", "d">>,
      <<"1", "8", ":">>,
      <<"-", "1", ":", "3", "0">>,
      <<>> }

CalcInputs ==
    { MkClass(d, TimeStr(h, m), lead, TRUE) :
          d \in CalcDays, h \in CalcHours, m \in CalcMinutes, lead \in CalcLeads }
    \cup { MkClass(d, t, 15, TRUE) : d \in {"Friday", "Funday"}, t \in MalformedTimes }

\* one create_class on a freshly started server, with any request body
CreateFirst == nextId = 1 /\ \E tc \in CalcInputs : create_class(tc)

SpecCalc == Init /\ [][CreateFirst]_vars

\* ------------------------------------------------- vocabulary of the claims
WeekMinutes == 7 * MinutesPerDay

\* the minute of the week of (day index, hour, minute), Monday 00:00 being 0
MinuteOfWeek(day, hour, minute) == day * MinutesPerDay + 60 * hour + minute

\* a fire spec can be computed from the record's schedule fields
Computable(rec) ==
    /\ rec.day_of_week \in DOMAIN day_mapping
    /\ ParseTime(rec.class_time).ok
    /\ ReplaceOk(ParseTime(rec.class_time).hour, ParseTime(rec.class_time).minute)

\* the input constraints of the trigger calculation
ValidSchedule(rec) == Computable(rec) /\ rec.reminder_minutes >= 0

\* malformed weekday, out-of-range time or negative lead time
ViolatesConstraints(rec) ==
    \/ rec.day_of_week \notin DOMAIN day_mapping
    \/ /\ ParseTime(rec.class_time).ok
       /\ ~ReplaceOk(ParseTime(rec.class_time).hour,
                     ParseTime(rec.class_time).minute)
    \/ rec.reminder_minutes < 0

\* the class time of a record, in minutes since midnight
ClassMinute(rec) ==
    60 * ParseTime(rec.class_time).hour + ParseTime(rec.class_time).minute

IsError(status) == status \in {"404", "500"}

\* ids handed out by create_class and deleted since
Deleted(id) == id \in 1..(nextId - 1) /\ id \notin DOMAIN classes_db

\* ------------------------------------------------------------------ claims
\* C1 (as claimed): for every valid schedule the installed fire spec, as a
\* minute of the week, plus the lead time modulo the week is the minute of
\* the week of the class.
C1_RoundTrip ==
    \A id \in DOMAIN classes_db :
        LET rec == classes_db[id]
        IN ValidSchedule(rec) =>
              /\ JobsOf(jobs, id) # {}
              /\ \A j \in JobsOf(jobs, id) :
                    (MinuteOfWeek(j.day_of_week, j.hour, j.minute)
                         + rec.reminder_minutes) % WeekMinutes
                    = MinuteOfWeek(day_mapping[rec.day_of_week],
                                   ParseTime(rec.class_time).hour,
                                   ParseTime(rec.class_time).minute)

\* C2: when the lead time does not exceed the minutes since midnight of the
\* class, the one installed entry fires on the weekday of the class, at the
\* class time minus the lead time.
C2_NoRollover ==
    \A id \in DOMAIN classes_db :
        LET rec == classes_db[id]
        IN (ValidSchedule(rec) /\ rec.reminder_minutes <= ClassMinute(rec)) =>
              /\ Cardinality(JobsOf(jobs, id)) = 1
              /\ \A j \in JobsOf(jobs, id) :
                    /\ j.day_of_week = day_mapping[rec.day_of_week]
                    /\ 60 * j.hour + j.minute
                           = ClassMinute(rec) - rec.reminder_minutes
                    /\ j.minute \in 0..59

\* C2 witness: Wednesday 16:00 with lead 30 is installed as Wednesday 15:30
C2_Witness ==
    \E id \in DOMAIN classes_db :
        /\ classes_db[id].day_of_week = "Wednesday"
        /\ classes_db[id].class_time = TimeStr(16, 0)
        /\ classes_db[id].reminder_minutes = 30
        /\ jobs = {[id |-> id, day_of_week |-> 2, hour |-> 15, minute |-> 30]}

\* C3 (as claimed): every active record has exactly one registry entry, and
\* its fire spec is the one schedule_reminder computes from the record.
C3_ActiveHasEntry ==
    \A id \in DOMAIN classes_db :
        classes_db[id].is_active =>
            /\ Cardinality(JobsOf(jobs, id)) = 1
            /\ JobsOf(jobs, id) = schedule_reminder({}, id, classes_db[id]).jobs

\* C4: the registry never holds two entries for one class id, and a record
\* written by create_class or update_class with valid schedule fields has
\* exactly one entry: same weekday, class time minus lead time (modulo the
\* day), as computed from the fields of the most recent call.
C4_OneEntryLatestSpec ==
    /\ \A id \in 1..MaxIds : Cardinality(JobsOf(jobs, id)) <= 1
    /\ \A id \in DOMAIN classes_db :
          LET rec == classes_db[id]
          IN ValidSchedule(rec) =>
                JobsOf(jobs, id) =
                    {[id |-> id,
                      day_of_week |-> day_mapping[rec.day_of_week],
                      hour |-> ((ClassMinute(rec) - rec.reminder_minutes)
                                   % MinutesPerDay) \div 60,
                      minute |-> ((ClassMinute(rec) - rec.reminder_minutes)
                                   % MinutesPerDay) % 60]}

\* C4 witness: a record rewritten by update_class to Friday 18:00 lead 45
\* has the single entry Friday 17:15
C4_Witness ==
    /\ last = [op |-> "update_class", status |-> "200"]
    /\ \E id \in DOMAIN classes_db :
          /\ classes_db[id].created_at = None
          /\ classes_db[id].day_of_week = "Friday"
          /\ classes_db[id].class_time = TimeStr(18, 0)
          /\ classes_db[id].reminder_minutes = 45
          /\ jobs = {[id |-> id, day_of_week |-> 4, hour |-> 17, minute |-> 15]}

\* C5 (as claimed): a create_class whose schedule fields give no fire spec
\* adds no record and answers with an error.
C5_CreateAborted ==
    [][\A tc \in ClassInputs :
          (create_class(tc) /\ ~Computable(tc)) =>
              /\ classes_db' = classes_db
              /\ IsError(last'.status)]_vars

\* C6 (as claimed): an update_class of an existing record with invalid
\* schedule fields is rejected and leaves the record and its entry as they were.
C6_UpdateAborted ==
    [][\A id \in DOMAIN classes_db : \A tc \in ClassInputs :
          (update_class(id, tc) /\ ~Computable(tc)) =>
              /\ classes_db' = classes_db
              /\ jobs' = jobs
              /\ IsError(last'.status)]_vars

\* C7 (as claimed): for a weekday outside the seven names, an hour or minute
\* out of range, or a negative lead time, the calculation fails with an error
\* and no registry entry is installed.
C7_InvalidRejected ==
    \A id \in DOMAIN classes_db :
        ViolatesConstraints(classes_db[id]) =>
            /\ JobsOf(jobs, id) = {}
            /\ last.op = "create_class" /\ IsError(last.status)

C9_NoFireAfterDelete ==
    [][\A id \in 1..MaxIds :
          Deleted(id) =>
              /\ id \in pending' => id \in pending
              /\ BackgroundFire(id) => messages_db' = messages_db
              /\ \A req \in [class_id : {id}, custom_message : CustomMessages] :
                    send_manual_reminder(id, req) => messages_db' = messages_db]_vars

\* C9 witness: every id handed out is deleted and a background fire that was
\* in flight has just run, with nothing logged
C9_Witness ==
    /\ last.op = "send_class_reminder"
    /\ nextId > 1
    /\ classes_db = <<>>
    /\ messages_db = <<>>

\* C10: a fire for a record that is inactive at fire time, from the background
\* timer or from send_manual_reminder, leaves messages_db unchanged and ends
\* without an error.
C10_InactiveNoMessage ==
    [][\A id \in DOMAIN classes_db :
          ~classes_db[id].is_active =>
              /\ BackgroundFire(id) => messages_db' = messages_db
              /\ \A req \in [class_id : {id}, custom_message : CustomMessages] :
                    send_manual_reminder(id, req) =>
                        /\ messages_db' = messages_db
                        /\ last'.status = "200"]_vars

\* C10 witness: a background fire through a registry entry that is still
\* present has just run on an inactive record, and nothing was logged
C10_Witness ==
    /\ last.op = "send_class_reminder"
    /\ DOMAIN classes_db = 1..(nextId - 1)
    /\ nextId > 1
    /\ \A id \in DOMAIN classes_db :
          ~classes_db[id].is_active /\ JobsOf(jobs, id) # {}
    /\ messages_db = <<>>

\* the log entry send_whatsapp_message writes for a body sent to a phone
LogEntry(phone, body) == [phone |-> phone, message |-> body, status |-> "sent"]

\* the reminder template filled from a record's fields
TemplateBody(rec) ==
    [subject |-> rec.subject,
     child_name |-> rec.child_name,
     class_time |-> rec.class_time,
     day_of_week |-> rec.day_of_week,
     reminder_minutes |-> rec.reminder_minutes]

\* a message body that is a caller's own text, not the template
OverrideBody(text) == [text |-> text]

\* the requests send_manual_reminder may receive for a class id
RequestsFor(id) == [class_id : {id}, custom_message : CustomMessages]

\* C11: a fire for a class id that is not in classes_db sends nothing and
\* changes neither classes_db, the registry nor messages_db; the background
\* fire completes, the manual fire answers 404.
C11_UnknownSessionNoDispatch ==
    [][\A id \in RequestIds \ DOMAIN classes_db :
          /\ BackgroundFire(id) =>
                /\ UNCHANGED <<classes_db, jobs, messages_db>>
                /\ id \notin pending'
          /\ \A req \in RequestsFor(id) :
                send_manual_reminder(id, req) =>
                    /\ last'.status = "404"
                    /\ UNCHANGED <<classes_db, jobs, messages_db>>]_vars

\* C11 witness: a manual fire for an id that has no record was answered 404
\* with nothing logged
C11_Witness ==
    /\ last = [op |-> "send_manual_reminder", status |-> "404"]
    /\ messages_db = <<>>

\* C12: a fire on a record that exists and is active appends exactly one
\* entry to messages_db, addressed to the record's parent_phone, whose body is
\* the template filled from the record's fields at fire time.
C12_OneMessagePerFire ==
    [][\A id \in DOMAIN classes_db :
          classes_db[id].is_active =>
              /\ BackgroundFire(id) =>
                    messages_db' = Append(messages_db,
                        LogEntry(classes_db[id].parent_phone,
                                 TemplateBody(classes_db[id])))
              /\ \A req \in RequestsFor(id) :
                    (send_manual_reminder(id, req) /\ req.custom_message = None) =>
                        messages_db' = Append(messages_db,
                            LogEntry(classes_db[id].parent_phone,
                                     TemplateBody(classes_db[id])))]_vars

\* C12 witness: a manual fire on the only record, which is active, has just
\* logged one message addressed to its parent
C12_Witness ==
    /\ last = [op |-> "send_manual_reminder", status |-> "200"]
    /\ Len(messages_db) = 1
    /\ \E id \in DOMAIN classes_db :
          /\ DOMAIN classes_db = {id}
          /\ classes_db[id].is_active
          /\ messages_db[1] = LogEntry(classes_db[id].parent_phone,
                                       TemplateBody(classes_db[id]))

\* C13 (as claimed): a manual fire on an active record whose request carries
\* custom_message logs that text as the body; without one it logs the template.
C13_OverrideBody ==
    [][\A id \in DOMAIN classes_db : \A req \in RequestsFor(id) :
          (classes_db[id].is_active /\ send_manual_reminder(id, req)) =>
              messages_db' = Append(messages_db,
                  LogEntry(classes_db[id].parent_phone,
                           IF req.custom_message = None
                           THEN TemplateBody(classes_db[id])
                           ELSE OverrideBody(req.custom_message)))]_vars

\* the registry entry update_class or create_class installs for a record with
\* computable schedule fields
EntryFor(id, rec) ==
    [id |-> id,
     day_of_week |-> day_mapping[rec.day_of_week],
     hour |-> ((ClassMinute(rec) - rec.reminder_minutes) % MinutesPerDay) \div 60,
     minute |-> ((ClassMinute(rec) - rec.reminder_minutes) % MinutesPerDay) % 60]

\* two request bodies or records with the same schedule fields
SameSchedule(a, b) ==
    /\ a.day_of_week = b.day_of_week
    /\ a.class_time = b.class_time
    /\ a.reminder_minutes = b.reminder_minutes

\* C14: a step taken by send_manual_reminder or by a background run of
\* send_class_reminder leaves classes_db and the registry as they were,
\* whether the id is active, inactive or unknown.
C14_FireFrame ==
    [][last'.op \in {"send_manual_reminder", "send_class_reminder"} =>
          /\ classes_db' = classes_db
          /\ jobs' = jobs
          /\ nextId' = nextId]_vars

\* C14 witness: a background fire has just logged a message while the record
\* and its registry entry are both in place
C14_Witness ==
    /\ last.op = "send_class_reminder"
    /\ Len(messages_db) = 1
    /\ \E id \in DOMAIN classes_db :
          classes_db[id].is_active /\ JobsOf(jobs, id) # {}

\* C15: an update_class that only flips is_active on a record with valid
\* schedule fields leaves the record with exactly one registry entry, with the
\* fire spec it had before.
C15_ToggleKeepsEntry ==
    [][\A id \in DOMAIN classes_db : \A tc \in ClassInputs :
          (/\ update_class(id, tc)
           /\ ValidSchedule(classes_db[id])
           /\ SameSchedule(tc, classes_db[id])
           /\ tc.is_active # classes_db[id].is_active) =>
              /\ last'.status = "200"
              /\ classes_db'[id].is_active = tc.is_active
              /\ JobsOf(jobs', id) = {EntryFor(id, classes_db[id])}
              /\ JobsOf(jobs', id) = JobsOf(jobs, id)]_vars

\* C15 witness: an active record with the entry Friday 17:45 from which
\* update_class, flipping is_active alone, reaches an inactive record that
\* still has that entry
C15_Witness ==
    \E id \in DOMAIN classes_db :
        /\ classes_db[id].is_active
        /\ JobsOf(jobs, id) =
               {[id |-> id, day_of_week |-> 4, hour |-> 17, minute |-> 45]}
        /\ \E tc \in ClassInputs :
              /\ SameSchedule(tc, classes_db[id])
              /\ ~tc.is_active
              /\ ENABLED (/\ update_class(id, tc)
                          /\ ~classes_db'[id].is_active
                          /\ jobs' = jobs)

\* C16 (as claimed): every stored record carries the id it is keyed by and
\* the created_at that create_class set.
C16_IdAndCreatedAtFixed ==
    \A id \in DOMAIN classes_db :
        /\ classes_db[id].id = id
        /\ classes_db[id].created_at = Now

\* C17: removing a reminder that is not in the registry is not an error:
\* delete_class on a record without an entry answers 200 and removes the
\* record, and update_class on such a record goes on to store the new record
\* and, for computable schedule fields, to install its entry.
C17_RemoveAbsentIsNoOp ==
    [][\A id \in DOMAIN classes_db :
          JobsOf(jobs, id) = {} =>
              /\ delete_class(id) =>
                    /\ last'.status = "200"
                    /\ id \notin DOMAIN classes_db'
                    /\ jobs' = jobs
              /\ \A tc \in ClassInputs :
                    update_class(id, tc) =>
                        /\ last'.status # "404"
                        /\ SameSchedule(classes_db'[id], tc)
                        /\ Computable(tc) =>
                              /\ last'.status = "200"
                              /\ JobsOf(jobs', id) = {EntryFor(id, tc)}]_vars

\* C17 witness: a stored record whose scheduling was skipped, so it has no
\* entry, from which delete_class answers 200 and removes the record
C17_Witness ==
    \E id \in DOMAIN classes_db :
        /\ JobsOf(jobs, id) = {}
        /\ ~Computable(classes_db[id])
        /\ ENABLED (/\ delete_class(id)
                    /\ last'.status = "200"
                    /\ id \notin DOMAIN classes_db')

\* the registry holds, for every id, what the record last written for it
\* gives: its one entry when a fire spec can be computed, nothing otherwise,
\* and nothing for an id with no record
RegistryFollowsRecords ==
    \A id \in 1..MaxIds :
        JobsOf(jobs, id) =
            IF id \in DOMAIN classes_db /\ Computable(classes_db[id])
            THEN {EntryFor(id, classes_db[id])}
            ELSE {}

\* the step is a create_class, update_class or delete_class for class id
MutatesClass(id) ==
    \/ nextId = id /\ \E tc \in ClassInputs : create_class(tc)
    \/ \E tc \in ClassInputs : update_class(id, tc)
    \/ delete_class(id)

\* the record or the registry entry of class id differs across the step
Touched(id) ==
    \/ (id \in DOMAIN classes_db') # (id \in DOMAIN classes_db)
    \/ id \in DOMAIN classes_db /\ id \in DOMAIN classes_db'
          /\ classes_db'[id] # classes_db[id]
    \/ JobsOf(jobs', id) # JobsOf(jobs, id)

C19_UnknownIdNotFound ==
    [][\A id \in RequestIds \ DOMAIN classes_db :
          /\ \A tc \in ClassInputs :
                update_class(id, tc) =>
                    /\ last'.status = "404"
                    /\ UNCHANGED <<classes_db, jobs, messages_db>>
          /\ delete_class(id) =>
                /\ last'.status = "404"
                /\ UNCHANGED <<classes_db, jobs, messages_db>>]_vars

\* C19 witness: update_class for an unknown id was answered 404 and there is
\* still no record and no registry entry
C19_Witness ==
    /\ last = [op |-> "update_class", status |-> "404"]
    /\ classes_db = <<>>
    /\ jobs = {}

====
